---- MODULE Spec2Model ----
(***************************************************************************)
(* Pipeline orchestrator of etude: the job state machine, JobService       *)
(* status updates and the three stage handlers (OMR, fingering,            *)
(* rendering), each running in its own database session.                   *)
(***************************************************************************)
EXTENDS Integers, Sequences, FiniteSets, TLC

VARIABLES jobExists, job, artifacts, queue, procs, invocations, vin, vout,
          store, net, api, score

vars ==
  <<jobExists, job, artifacts, queue, procs, invocations, vin, vout, store,
    net, api, score>>

\* ---------------------------------------------------------------- bounds
\* the handler invocations of a behaviour, numbered in the order they start
MaxInvocations == 2
\* the pages of a renderer response
MaxPages == 2

\* payloads are 1..MaxByte
MaxByte == 2

\* store_artifact calls a behaviour makes step by step
MaxStores == 2

Procs == 1..MaxInvocations

\* ------------------------------------------------------ state_machine.py
JobStatus ==
  {"pending", "omr_processing", "omr_completed", "omr_failed",
   "fingering_processing", "fingering_completed", "fingering_failed",
   "rendering_processing", "completed", "failed"}

\* strings that are not statuses, as inputs of the validator
UnknownStatus == {"", "cancelled"}

\* mutant: the failed states of a stage lead to failed only
VALID_TRANSITIONS_no_retry ==
  [s \in JobStatus |->
     CASE s = "pending" -> {"omr_processing", "failed"}
       [] s = "omr_processing" -> {"omr_completed", "omr_failed", "failed"}
       [] s = "omr_completed" -> {"fingering_processing", "failed"}
       [] s = "omr_failed" -> {"failed"}
       [] s = "fingering_processing" ->
            {"fingering_completed", "fingering_failed", "failed"}
       [] s = "fingering_completed" -> {"rendering_processing", "failed"}
       [] s = "fingering_failed" -> {"failed"}
       [] s = "rendering_processing" -> {"completed", "failed"}
       [] s = "completed" -> {}
       [] s = "failed" -> {}]

\* mutant: a stage that has completed may be started again
VALID_TRANSITIONS_rerun ==
  [s \in JobStatus |->
     CASE s = "pending" -> {"omr_processing", "failed"}
       [] s = "omr_processing" -> {"omr_completed", "omr_failed", "failed"}
       [] s = "omr_completed" ->
            {"omr_processing", "fingering_processing", "failed"}
       [] s = "omr_failed" -> {"omr_processing", "failed"}
       [] s = "fingering_processing" ->
            {"fingering_completed", "fingering_failed", "failed"}
       [] s = "fingering_completed" ->
            {"fingering_processing", "rendering_processing", "failed"}
       [] s = "fingering_failed" -> {"fingering_processing", "failed"}
       [] s = "rendering_processing" -> {"completed", "failed"}
       [] s = "completed" -> {"rendering_processing"}
       [] s = "failed" -> {}]

VALID_TRANSITIONS ==
  [s \in JobStatus |->
     CASE s = "pending" -> {"omr_processing", "failed"}
       [] s = "omr_processing" -> {"omr_completed", "omr_failed", "failed"}
       [] s = "omr_completed" -> {"fingering_processing", "failed"}
       [] s = "omr_failed" -> {"omr_processing", "failed"}
       [] s = "fingering_processing" ->
            {"fingering_completed", "fingering_failed", "failed"}
       [] s = "fingering_completed" -> {"rendering_processing", "failed"}
       [] s = "fingering_failed" -> {"fingering_processing", "failed"}
       [] s = "rendering_processing" -> {"completed", "failed"}
       [] s = "completed" -> {}
       [] s = "failed" -> {}]

\* Error messages are modelled by their length in characters; None is -1.
NoMessage == -1

\* len() of the strings the validator formats into its messages
StrLen(s) ==
  CASE s = "pending" -> 7
    [] s = "omr_processing" -> 14
    [] s = "omr_completed" -> 13
    [] s = "omr_failed" -> 10
    [] s = "fingering_processing" -> 20
    [] s = "fingering_completed" -> 19
    [] s = "fingering_failed" -> 16
    [] s = "rendering_processing" -> 20
    [] s = "completed" -> 9
    [] s = "failed" -> 6
    [] s = "" -> 0
    [] s = "cancelled" -> 9

RECURSIVE SumLen(_)
SumLen(S) ==
  IF S = {} THEN 0
  ELSE LET x == CHOOSE y \in S : TRUE IN StrLen(x) + SumLen(S \ {x})

\* len(', '.join(allowed))
JoinLen(S) == IF S = {} THEN 0 ELSE SumLen(S) + 2 * (Cardinality(S) - 1)

\* mutant: the membership test of line 65 is missing
validate_transition_unchecked(current_status, next_status) ==
  IF current_status \notin DOMAIN VALID_TRANSITIONS
    THEN [ok |-> FALSE, msg |-> 24 + StrLen(current_status)]
    ELSE IF next_status \notin DOMAIN VALID_TRANSITIONS
      THEN [ok |-> FALSE, msg |-> 21 + StrLen(next_status)]
      ELSE [ok |-> TRUE, msg |-> NoMessage]

validate_transition(current_status, next_status) ==
  IF current_status \notin DOMAIN VALID_TRANSITIONS
    THEN [ok |-> FALSE, msg |-> 24 + StrLen(current_status)]
    ELSE IF next_status \notin DOMAIN VALID_TRANSITIONS
      THEN [ok |-> FALSE, msg |-> 21 + StrLen(next_status)]
      ELSE IF next_status \notin VALID_TRANSITIONS[current_status]
        THEN [ok |-> FALSE,
              msg |-> 24 + StrLen(current_status) + 4 + StrLen(next_status)
                      + 23 + JoinLen(VALID_TRANSITIONS[current_status])]
        ELSE [ok |-> TRUE, msg |-> NoMessage]

\* ------------------------------------------------------------ the records
\* models/job.py: the columns of the job row the orchestrator writes
NewJob ==
  [status |-> "pending", error_message |-> NoMessage, completed_at |-> FALSE,
   transitions |-> <<>>]

\* models/artifact.py: an artifact row; ids are assigned in insertion order
Artifact(id, type, version, parent) ==
  [id |-> id, artifact_type |-> type, schema_version |-> version,
   parent_artifact_id |-> parent]

NoArtifact == 0

ArtifactsOfType(t) == {i \in DOMAIN artifacts : artifacts[i].artifact_type = t}

\* rendering_tasks.py:174: the parsed JSON body of the renderer's 200 response
RenderResponse(hasFormats, isDict, keys, midiOk, svgIsList, svg, png) ==
  [hasFormats |-> hasFormats, isDict |-> isDict, keys |-> keys,
   midiOk |-> midiOk, svgIsList |-> svgIsList, svg |-> svg, png |-> png]

NoResponse == RenderResponse(FALSE, FALSE, {}, FALSE, FALSE, 0, 0)

\* a handler invocation that is not running
IdleProc ==
  [kind |-> "idle", pc |-> "idle", sess |-> "unloaded", rsess |-> "unloaded",
   upd |-> FALSE, seen |-> "unloaded", nested |-> FALSE, inArt |-> NoArtifact,
   outArt |-> NoArtifact, rArt |-> NoArtifact, err |-> NoMessage, retry |-> 0, result |-> "none",
   resp |-> NoResponse, made |-> {}, dup |-> FALSE, start |-> "none",
   excAt |-> "none", rexcAt |-> "none", svc |-> "none", fault |-> FALSE,
   read |-> 0, health |-> "none"]

\* ------------------------------------------------- JobService.update_job_status
\* The places where a handler calls update_job_status.
UpdateSites ==
  {"omr_set_processing", "omr_set_completed", "omr_set_failed",
   "fing_set_processing", "fing_set_completed", "fing_set_render_failed",
   "fing_set_failed",
   "rend_set_processing", "rend_set_completed", "rend_set_failed"}

\* mutant: the except clause of the fingering handler writes the generic
\* failed status
SiteTarget_generic_failed(pc) ==
  CASE pc = "omr_set_processing" -> "omr_processing"
    [] pc = "omr_set_completed" -> "omr_completed"
    [] pc = "omr_set_failed" -> "omr_failed"
    [] pc = "fing_set_processing" -> "fingering_processing"
    [] pc = "fing_set_completed" -> "fingering_completed"
    [] pc = "fing_set_render_failed" -> "failed"
    [] pc = "fing_set_failed" -> "failed"
    [] pc = "rend_set_processing" -> "rendering_processing"
    [] pc = "rend_set_completed" -> "completed"
    [] pc = "rend_set_failed" -> "failed"

\* mutant: a failure of rendering is written as a failure of fingering
SiteTarget_blames_fingering(pc) ==
  CASE pc = "omr_set_processing" -> "omr_processing"
    [] pc = "omr_set_completed" -> "omr_completed"
    [] pc = "omr_set_failed" -> "omr_failed"
    [] pc = "fing_set_processing" -> "fingering_processing"
    [] pc = "fing_set_completed" -> "fingering_completed"
    [] pc = "fing_set_render_failed" -> "failed"
    [] pc = "fing_set_failed" -> "fingering_failed"
    [] pc = "rend_set_processing" -> "rendering_processing"
    [] pc = "rend_set_completed" -> "completed"
    [] pc = "rend_set_failed" -> "fingering_failed"

\* mutant: the except clause of the OMR handler writes omr_processing
SiteTarget_stays_processing(pc) ==
  CASE pc = "omr_set_processing" -> "omr_processing"
    [] pc = "omr_set_completed" -> "omr_completed"
    [] pc = "omr_set_failed" -> "omr_processing"
    [] pc = "fing_set_processing" -> "fingering_processing"
    [] pc = "fing_set_completed" -> "fingering_completed"
    [] pc = "fing_set_render_failed" -> "failed"
    [] pc = "fing_set_failed" -> "fingering_failed"
    [] pc = "rend_set_processing" -> "rendering_processing"
    [] pc = "rend_set_completed" -> "completed"
    [] pc = "rend_set_failed" -> "failed"

\* the status argument of the call
SiteTarget(pc) ==
  CASE pc = "omr_set_processing" -> "omr_processing"
    [] pc = "omr_set_completed" -> "omr_completed"
    [] pc = "omr_set_failed" -> "omr_failed"
    [] pc = "fing_set_processing" -> "fingering_processing"
    [] pc = "fing_set_completed" -> "fingering_completed"
    [] pc = "fing_set_render_failed" -> "failed"
    [] pc = "fing_set_failed" -> "fingering_failed"
    [] pc = "rend_set_processing" -> "rendering_processing"
    [] pc = "rend_set_completed" -> "completed"
    [] pc = "rend_set_failed" -> "failed"

\* The session the call runs in: the handler's own ("sess": the db argument of
\* process_omr_job, the AsyncSessionLocal of fingering_tasks.py:42), the one
\* process_rendering_async opens (rendering_tasks.py:43), or one opened for
\* this call alone (fingering_tasks.py:121, rendering_tasks.py:321).
SiteSession(pc) ==
  CASE pc \in {"omr_set_processing", "omr_set_completed", "omr_set_failed",
               "fing_set_processing", "fing_set_completed",
               "fing_set_render_failed"} -> "sess"
    [] pc \in {"rend_set_processing", "rend_set_completed"} -> "rsess"
    [] pc \in {"fing_set_failed", "rend_set_failed"} -> "fresh"

\* rendering_tasks.py:324
Truncate(n) == IF n > 1000 THEN 1000 ELSE n

\* the error_message argument of the call
SiteMessage(pr) ==
  CASE pr.pc \in {"omr_set_failed", "fing_set_failed",
                  "fing_set_render_failed"} -> pr.err
    [] pr.pc = "rend_set_failed" -> Truncate(pr.err)
    [] OTHER -> NoMessage

\* What a session's select returns for job.status: the sessions are made with
\* expire_on_commit=False (db/session.py:35-41), so a Job already in the
\* session's identity map keeps the attributes it was loaded or refreshed with.
SessionStatus(pr) ==
  LET k == SiteSession(pr.pc) IN
  IF k = "sess" /\ pr.sess # "unloaded" THEN pr.sess
  ELSE IF k = "rsess" /\ pr.rsess # "unloaded" THEN pr.rsess
  ELSE job.status

\* the session's copy of the row after a load or db.refresh(job)
Loaded(pr, st) ==
  LET k == SiteSession(pr.pc) IN
  IF k = "sess" THEN [pr EXCEPT !.sess = st]
  ELSE IF k = "rsess" THEN [pr EXCEPT !.rsess = st]
  ELSE pr

\* The handler has returned or raised: its sessions are closed and its locals
\* gone; what is kept is what the invocation did.
Finished(pr, how) ==
  [pr EXCEPT !.pc = "done", !.result = how, !.upd = FALSE,
             !.sess = "unloaded", !.rsess = "unloaded", !.seen = "unloaded",
             !.err = NoMessage, !.retry = 0, !.resp = NoResponse,
             !.health = "none"]

\* process_rendering_async re-raises (rendering_tasks.py:345): to the task
\* queue, or into the except clause of fingering_tasks.py:97-105.
RenderRaise(pr) ==
  IF pr.nested
    THEN [pr EXCEPT !.pc = "fing_set_render_failed", !.nested = FALSE,
                    !.upd = FALSE, !.retry = 0, !.err = 29 + pr.err,
                    !.health = "none"]
    ELSE Finished(pr, "raised")

OmrBody ==
  {"omr_get_job", "omr_set_processing", "omr_get_pdf", "omr_download",
   "omr_call", "omr_store", "omr_set_completed", "omr_trigger"}

FingBody ==
  {"fing_set_processing", "fing_load", "fing_call", "fing_store",
   "fing_relabel", "fing_set_completed", "fing_set_render_failed"}

RendBody ==
  {"rend_set_processing", "rend_load", "rend_health", "rend_call",
   "rend_store", "rend_set_completed"}

\* An exception with message length msg raised at pr.pc: where control goes.
Throw(pr, msg) ==
  CASE pr.pc \in OmrBody ->
         [pr EXCEPT !.pc = "omr_set_failed", !.err = msg, !.upd = FALSE,
                    !.excAt = pr.pc]
    [] pr.pc = "omr_set_failed" -> Finished(pr, "returned")
    [] pr.pc \in FingBody ->
         [pr EXCEPT !.pc = "fing_set_failed", !.err = msg, !.upd = FALSE,
                    !.excAt = IF pr.excAt = "none" THEN pr.pc ELSE pr.excAt]
    [] pr.pc = "fing_set_failed" -> Finished(pr, "raised")
    [] pr.pc \in RendBody ->
         [pr EXCEPT !.pc = "rend_set_failed", !.err = msg, !.upd = FALSE,
                    !.retry = 0, !.rexcAt = pr.pc, !.resp = NoResponse]
    [] pr.pc = "rend_set_failed" ->
         IF pr.retry + 1 < 3
           THEN [pr EXCEPT !.retry = pr.retry + 1, !.upd = FALSE]
           ELSE RenderRaise([pr EXCEPT !.retry = pr.retry + 1])

\* Where control goes after the call returned.
AfterUpdate(pr) ==
  CASE pr.pc = "omr_set_processing" -> [pr EXCEPT !.pc = "omr_get_pdf"]
    [] pr.pc = "omr_set_completed" -> [pr EXCEPT !.pc = "omr_trigger"]
    [] pr.pc = "omr_set_failed" -> Finished(pr, "returned")
    [] pr.pc = "fing_set_processing" -> [pr EXCEPT !.pc = "fing_load"]
    [] pr.pc = "fing_set_completed" ->
         [pr EXCEPT !.pc = "rend_set_processing", !.nested = TRUE,
                    !.rsess = "unloaded", !.rArt = pr.outArt]
    [] pr.pc = "fing_set_render_failed" -> Finished(pr, "returned")
    [] pr.pc = "fing_set_failed" -> Finished(pr, "raised")
    [] pr.pc = "rend_set_processing" -> [pr EXCEPT !.pc = "rend_load"]
    [] pr.pc = "rend_set_completed" ->
         Finished([pr EXCEPT !.nested = FALSE], "returned")
    [] pr.pc = "rend_set_failed" -> RenderRaise(pr)

\* job_service.py:124-130: load the job, validate the transition
ReadJob(p) ==
  LET pr == procs[p]
      seen == SessionStatus(pr)
      v == validate_transition(seen, SiteTarget(pr.pc))
  IN /\ pr.pc \in UpdateSites
     /\ ~pr.upd
     /\ procs' = [procs EXCEPT ![p] =
          IF ~jobExists THEN Throw(pr, 51)
          ELSE IF ~v.ok THEN Throw(Loaded(pr, seen), v.msg)
          ELSE [Loaded(pr, seen) EXCEPT !.upd = TRUE, !.seen = seen]]
     /\ UNCHANGED <<jobExists, job, artifacts, queue, invocations, vin, vout, store, net, api,
                 score>>

\* job_service.py:139-148: the entry is built after line 132 has overwritten
\* job.status, so its "from" is the new status
AppendTransition(log, new_status) ==
  Append(log, [from |-> new_status, to |-> new_status])

\* job_metadata is a plain JSON column (db/types.py:7-19, models/job.py:53):
\* a change made in place to the loaded dict is not seen by the unit of work,
\* so the commit leaves the column as it was and the refresh reloads that.
FlushMetadata(persisted, in_memory) == persisted

\* mutant: the error message is not assigned
SetStatus_lost_message(row, status, error_message) ==
  [row EXCEPT
     !.status = status,
     !.completed_at = IF status = "completed" THEN TRUE ELSE @,
     !.transitions = FlushMetadata(@, AppendTransition(@, status))]

\* job_service.py:132-136: the columns the call assigns
SetStatus(row, status, error_message) ==
  [row EXCEPT
     !.status = status,
     !.error_message = IF error_message > 0 THEN error_message ELSE @,
     !.completed_at = IF status = "completed" THEN TRUE ELSE @,
     !.transitions = FlushMetadata(@, AppendTransition(@, status))]

\* SQLAlchemy's StaleDataError: "UPDATE statement on table 'jobs' expected to
\* update 1 row(s); 0 were matched."
StaleRowErrLen == 77

\* job_service.py:132-152: assign, commit, refresh; the commit raises when
\* the row has been deleted since it was loaded
CommitJob(p) ==
  LET pr == procs[p]
      target == SiteTarget(pr.pc)
  IN /\ pr.pc \in UpdateSites
     /\ pr.upd
     /\ IF jobExists
          THEN /\ job' = SetStatus(job, target, SiteMessage(pr))
               /\ procs' = [procs EXCEPT ![p] =
                    AfterUpdate([Loaded(pr, target) EXCEPT !.upd = FALSE])]
          ELSE /\ job' = job
               /\ procs' = [procs EXCEPT ![p] =
                    Throw([pr EXCEPT !.upd = FALSE], StaleRowErrLen)]
     /\ UNCHANGED <<jobExists, artifacts, queue, invocations, vin, vout, store, net, api,
                 score>>

\* ------------------------------------------------------- the model services
AttemptOutcomes == {"ok", "invalid", "timeout", "network", "http"}

\* httpx.TimeoutException, httpx.NetworkError
Transport == {"timeout", "network"}

\* mutant: an error status is retried like a transport error
RetryCall_retries_http(outs) ==
  IF outs[1] \notin Transport \cup {"http"}
    THEN [kind |-> outs[1], attempts |-> 1]
  ELSE IF outs[2] \notin Transport \cup {"http"}
    THEN [kind |-> outs[2], attempts |-> 2]
  ELSE [kind |-> outs[3], attempts |-> 3]

\* omr_client.py:48-52, fingering_client.py:48-52: tenacity retries an attempt
\* that raised a transport error, stops after the third attempt and then
\* raises its RetryError; anything else ends the call at once.
RetryCall(outs) ==
  IF outs[1] \notin Transport THEN [kind |-> outs[1], attempts |-> 1]
  ELSE IF outs[2] \notin Transport THEN [kind |-> outs[2], attempts |-> 2]
  ELSE IF outs[3] \notin Transport THEN [kind |-> outs[3], attempts |-> 3]
  ELSE [kind |-> "retry_error", attempts |-> 3]

\* no create_job or delete_job has been called: api.op is the call, api.pc
\* where it stands, api.data the uploaded PDF, api.listed the artifacts
\* delete_job found, api.failed those whose delete_file returned False,
\* api.during whether a handler was at work when delete_job began
NoRequest ==
  [op |-> "none", pc |-> "idle", data |-> 0, listed |-> {}, failed |-> {},
   during |-> FALSE]

\* no call of a client has been made: net.client is the client, net.outs
\* what each attempt would meet, net.result what the caller got
\* no call of resolve_voices: score.notes is the list the renderer passes and
\* gets back, score.staff_id and score.max_voices the arguments, score.resolved
\* whether the call has returned
NoScore ==
  [notes |-> <<>>, staff_id |-> "none", max_voices |-> 0, resolved |-> FALSE]

NoResult == [kind |-> "none", attempts |-> 0]

NoCall == [client |-> "none", outs |-> <<>>, result |-> NoResult]

\* len(str(e)) of what the handler catches, in two sizes: a line of text
\* (tenacity's RetryError naming the future, httpx's HTTPStatusError naming the
\* status and the url, the messages of rendering_tasks.py:132-178), and
\* pydantic's ValidationError listing every offending field, longer than the
\* 1000 characters of rendering_tasks.py:324 for a score of some size.
ServiceErrLen(kind) == IF kind = "invalid" THEN 1500 ELSE 73

\* botocore's ClientError from storage_service.py:64, :83
StorageErrLen == 73

\* ir_service.py:157: "Checksum mismatch for artifact " and a UUID
ChecksumErrLen == 67

\* ------------------------------------------------------- the object store
\* A payload is a number of 1..MaxByte, so never empty.
Bytes == 1..MaxByte

\* hashlib.sha256(data).hexdigest(): one digest per payload, and a digest is
\* not the payload
Sha256(data) == data * data + 7

\* artifact_service.py:62: UUID(int=0), the id in the key of the first upload
PlaceholderKey == 0

\* no result of get_artifact yet
NoGot == [kind |-> "none", id |-> NoArtifact, data |-> 0]

\* store.blobs: the objects written by the store_artifact calls that are
\* modelled step by step, and the objects whose content was altered;
\* store.rows: the rows those calls committed; store.pc, .data, .type, .id:
\* the call in progress; store.given: the payload each committed row was
\* stored with; store.got: what the last get_artifact gave its caller.
\* store.gone: the keys whose object delete_file removed while the row that
\* names the key is still there.
\* store.parent: the parent_artifact_id of the call in progress;
\* store.lineage: the artifact_lineage rows; store.lin: what the last
\* get_artifact_lineage gave its caller.
EmptyStore ==
  [blobs |-> <<>>, rows |-> <<>>, pc |-> "idle", data |-> 0, type |-> "none",
   id |-> NoArtifact, issued |-> 0, calls |-> 0, given |-> <<>>,
   got |-> NoGot, parent |-> NoArtifact, lineage |-> <<>>,
   lin |-> [id |-> NoArtifact, ancestors |-> <<>>, descendants |-> <<>>],
   gone |-> {}]

\* the payload a handler's store wrote for artifact i
Data(i) == 1 + (i % MaxByte)

\* mutant: the object holds other bytes than the caller passed
Upload_other_bytes(blobs, key, data) ==
  [k \in DOMAIN blobs \cup {key} |->
     IF k = key THEN 1 + (data % MaxByte) ELSE blobs[k]]

\* storage_service.py:44-64: put_object writes or replaces the object at key
Upload(blobs, key, data) ==
  [k \in DOMAIN blobs \cup {key} |-> IF k = key THEN data ELSE blobs[k]]

\* storage_service.py:93-107: delete_object
Delete(blobs, key) == [k \in DOMAIN blobs \ {key} |-> blobs[k]]

\* the keys that hold an object: a handler's store leaves one at the key of
\* each artifact it made
ObjectKeys == (DOMAIN store.blobs \cup DOMAIN artifacts) \ store.gone

\* storage_service.py:66-85: the bytes get_object reads at key k
Object(k) == IF k \in DOMAIN store.blobs THEN store.blobs[k] ELSE Data(k)

\* Artifact.storage_path and Artifact.checksum of row i
StoragePath(i) ==
  IF i \in DOMAIN store.rows THEN store.rows[i].storage_path ELSE i

Checksum(i) ==
  IF i \in DOMAIN store.rows THEN store.rows[i].checksum ELSE Sha256(Data(i))

\* ----------------------------------------------------------- the handlers
ProcessingOf(kind) ==
  CASE kind = "omr" -> "omr_processing"
    [] kind = "fingering" -> "fingering_processing"
    [] kind = "rendering" -> "rendering_processing"

CompletedOf(kind) ==
  CASE kind = "omr" -> "omr_completed"
    [] kind = "fingering" -> "fingering_completed"
    [] kind = "rendering" -> "completed"

FailedOf(kind) ==
  CASE kind = "omr" -> "omr_failed"
    [] kind = "fingering" -> "fingering_failed"
    [] kind = "rendering" -> "failed"

\* invocation q is inside the handler of this stage
Running(q, stage) ==
  /\ procs[q].pc \notin {"idle", "done"}
  /\ \/ procs[q].kind = stage /\ ~procs[q].nested
     \/ stage = "rendering" /\ procs[q].nested

\* A worker (or a caller) starts a handler: first pc, and what the invocation
\* found when it started.
Started(p, kind, pc, art) ==
  [IdleProc EXCEPT
     !.kind = kind, !.pc = pc, !.inArt = art,
     !.start = IF jobExists THEN job.status ELSE "none",
     !.dup = /\ jobExists
             /\ job.status = ProcessingOf(kind)
             /\ \E q \in Procs \ {p} : Running(q, kind)]

CanStart(p) ==
  /\ procs[p].pc = "idle"
  /\ invocations = p - 1

\* omr_processor.py:20: process_omr_job(job_id, db)
InvokeOmr(p) ==
  /\ CanStart(p)
  /\ procs' = [procs EXCEPT ![p] = Started(p, "omr", "omr_get_job", NoArtifact)]
  /\ invocations' = invocations + 1
  /\ UNCHANGED <<jobExists, job, artifacts, queue, vin, vout, store, net, api,
                 score>>

\* fingering_tasks.py:21-32: a delivery of a task queued by omr_processor.py:110
\* (the queue delivers at least once, so the task stays deliverable)
InvokeFingering(p, a) ==
  /\ CanStart(p)
  /\ a \in queue
  /\ procs' = [procs EXCEPT ![p] =
       Started(p, "fingering", "fing_set_processing", a)]
  /\ invocations' = invocations + 1
  /\ UNCHANGED <<jobExists, job, artifacts, queue, vin, vout, store, net, api,
                 score>>

\* rendering_tasks.py:23-32: the rendering task, given an IR v2 artifact
InvokeRendering(p, a) ==
  /\ CanStart(p)
  /\ a \in ArtifactsOfType("ir_v2")
  /\ procs' = [procs EXCEPT ![p] =
       [Started(p, "rendering", "rend_set_processing", a) EXCEPT !.rArt = a]]
  /\ invocations' = invocations + 1
  /\ UNCHANGED <<jobExists, job, artifacts, queue, vin, vout, store, net, api,
                 score>>

\* an artifact id that is no row of the artifacts table
UnknownArtifact == 99

\* fingering_tasks.py:35-37: process_fingering_async called by a caller of its
\* own, with an id of its choosing (tests/test_fingering_integration.py:300)
CallFingering(p, a) ==
  /\ CanStart(p)
  /\ procs' = [procs EXCEPT ![p] =
       Started(p, "fingering", "fing_set_processing", a)]
  /\ invocations' = invocations + 1
  /\ UNCHANGED <<jobExists, job, artifacts, queue, vin, vout, store, net, api,
                 score>>

\* rendering_tasks.py:35: process_rendering_async called with an id of the
\* caller's choosing (tests/test_rendering_integration.py:290)
CallRendering(p, a) ==
  /\ CanStart(p)
  /\ procs' = [procs EXCEPT ![p] =
       [Started(p, "rendering", "rend_set_processing", a) EXCEPT !.rArt = a]]
  /\ invocations' = invocations + 1
  /\ UNCHANGED <<jobExists, job, artifacts, queue, vin, vout, store, net, api,
                 score>>

\* omr_processor.py:41-44
OmrGetJob(p) ==
  LET pr == procs[p] IN
  /\ pr.pc = "omr_get_job"
  /\ procs' = [procs EXCEPT ![p] =
       IF ~jobExists THEN Finished(pr, "returned")
       ELSE [pr EXCEPT !.pc = "omr_set_processing",
                       !.sess = IF pr.sess = "unloaded" THEN job.status
                                ELSE pr.sess]]
  /\ UNCHANGED <<jobExists, job, artifacts, queue, invocations, vin, vout, store, net, api,
                 score>>

\* job_service.py:168-173 and omr_processor.py:52-58
FirstPdf ==
  IF ArtifactsOfType("pdf") = {} THEN NoArtifact
  ELSE CHOOSE i \in ArtifactsOfType("pdf") :
         \A j \in ArtifactsOfType("pdf") : i <= j

OmrGetPdf(p) ==
  LET pr == procs[p] IN
  /\ pr.pc = "omr_get_pdf"
  /\ procs' = [procs EXCEPT ![p] =
       IF FirstPdf = NoArtifact THEN Throw(pr, 66)
       ELSE [pr EXCEPT !.pc = "omr_download", !.inArt = FirstPdf]]
  /\ UNCHANGED <<jobExists, job, artifacts, queue, invocations, vin, vout, store, net, api,
                 score>>

\* omr_processor.py:61-63
OmrDownload(p) ==
  LET pr == procs[p] IN
  /\ pr.pc = "omr_download"
  /\ \E ok \in BOOLEAN :
       procs' = [procs EXCEPT ![p] =
         IF ok /\ pr.inArt \in DOMAIN artifacts
               /\ StoragePath(pr.inArt) \in ObjectKeys
           THEN [pr EXCEPT !.pc = "omr_call",
                           !.read = Object(StoragePath(pr.inArt))]
         ELSE Throw([pr EXCEPT !.fault = TRUE], StorageErrLen)]
  /\ UNCHANGED <<jobExists, job, artifacts, queue, invocations, vin, vout, store, net, api,
                 score>>

\* omr_processor.py:72-82: the client call, then result["ir_data"] and the
\* schema validation of it
OmrCall(p) ==
  LET pr == procs[p] IN
  /\ pr.pc = "omr_call"
  /\ \E outs \in [1..3 -> AttemptOutcomes] :
       LET r == RetryCall(outs) IN
       procs' = [procs EXCEPT ![p] =
         IF r.kind = "ok" THEN [pr EXCEPT !.pc = "omr_store", !.svc = "ok"]
         ELSE Throw([pr EXCEPT !.svc = r.kind], ServiceErrLen(r.kind))]
  /\ UNCHANGED <<jobExists, job, artifacts, queue, invocations, vin, vout, store, net, api,
                 score>>

\* mutant: the row is inserted without its parent
StoreIr_orphan(rows, version, parent) ==
  Append(rows, Artifact(Len(rows) + 1, "ir_v1", version, NoArtifact))

\* ir_service.py:79-120: the row store_ir inserts and commits; the type is
\* always ir_v1, the version is the IR's
StoreIr(rows, version, parent) ==
  Append(rows, Artifact(Len(rows) + 1, "ir_v1", version, parent))

\* omr_processor.py:91-95
OmrStore(p) ==
  LET pr == procs[p] IN
  /\ pr.pc = "omr_store"
  /\ \E ok \in {b \in BOOLEAN : b => jobExists} :
       IF ok
         THEN /\ artifacts' = StoreIr(artifacts, "1.0.0", pr.inArt)
              /\ procs' = [procs EXCEPT ![p] =
                   [pr EXCEPT !.pc = "omr_set_completed",
                              !.outArt = Len(artifacts) + 1,
                              !.made = pr.made \cup {Len(artifacts) + 1}]]
         ELSE /\ artifacts' = artifacts
              /\ procs' = [procs EXCEPT ![p] =
                   Throw([pr EXCEPT !.fault = TRUE], StorageErrLen)]
  /\ UNCHANGED <<jobExists, job, queue, invocations, vin, vout, store, net, api,
                 score>>

\* omr_processor.py:108-113: process_fingering_task.delay(...)
OmrTrigger(p) ==
  LET pr == procs[p] IN
  /\ pr.pc = "omr_trigger"
  /\ \E ok \in BOOLEAN :
       IF ok
         THEN /\ queue' = queue \cup {pr.outArt}
              /\ procs' = [procs EXCEPT ![p] = Finished(pr, "returned")]
         ELSE /\ queue' = queue
              /\ procs' = [procs EXCEPT ![p] =
                   Throw([pr EXCEPT !.fault = TRUE], 45)]
  /\ UNCHANGED <<jobExists, job, artifacts, invocations, vin, vout, store, net, api,
                 score>>

\* mutant: a missing row is not noticed
LoadIr_any_id(a, downloaded) ==
  IF ~downloaded \/ (a \in DOMAIN artifacts /\ StoragePath(a) \notin ObjectKeys)
    THEN StorageErrLen
  ELSE IF a \in DOMAIN artifacts
          /\ Sha256(Object(StoragePath(a))) # Checksum(a) THEN ChecksumErrLen
  ELSE NoMessage

\* ir_service.py:138-166: load_ir finds the row, downloads the blob and checks
\* it; the result is the length of the error raised, or NoMessage
LoadIr(a, downloaded) ==
  IF a \notin DOMAIN artifacts THEN 55
  ELSE IF ~downloaded \/ StoragePath(a) \notin ObjectKeys THEN StorageErrLen
  ELSE IF Sha256(Object(StoragePath(a))) # Checksum(a) THEN ChecksumErrLen
  ELSE NoMessage

\* fingering_tasks.py:52
FingLoad(p) ==
  LET pr == procs[p] IN
  /\ pr.pc = "fing_load"
  /\ \E ok \in BOOLEAN :
       LET e == LoadIr(pr.inArt, ok) IN
       procs' = [procs EXCEPT ![p] =
         IF e = NoMessage
           THEN [pr EXCEPT !.pc = "fing_call",
                           !.read = Object(StoragePath(pr.inArt))]
         ELSE Throw([pr EXCEPT !.fault = TRUE], e)]
  /\ UNCHANGED <<jobExists, job, artifacts, queue, invocations, vin, vout, store, net, api,
                 score>>

\* fingering_tasks.py:57-71
FingCall(p) ==
  LET pr == procs[p] IN
  /\ pr.pc = "fing_call"
  /\ \E outs \in [1..3 -> AttemptOutcomes] :
       LET r == RetryCall(outs) IN
       procs' = [procs EXCEPT ![p] =
         IF r.kind = "ok" THEN [pr EXCEPT !.pc = "fing_store", !.svc = "ok"]
         ELSE Throw([pr EXCEPT !.svc = r.kind], ServiceErrLen(r.kind))]
  /\ UNCHANGED <<jobExists, job, artifacts, queue, invocations, vin, vout, store, net, api,
                 score>>

\* fingering_tasks.py:74-78
FingStore(p) ==
  LET pr == procs[p] IN
  /\ pr.pc = "fing_store"
  /\ \E ok \in {b \in BOOLEAN : b => jobExists} :
       IF ok
         THEN /\ artifacts' = StoreIr(artifacts, "2.0.0", pr.inArt)
              /\ procs' = [procs EXCEPT ![p] =
                   [pr EXCEPT !.pc = "fing_relabel",
                              !.outArt = Len(artifacts) + 1,
                              !.made = pr.made \cup {Len(artifacts) + 1}]]
         ELSE /\ artifacts' = artifacts
              /\ procs' = [procs EXCEPT ![p] =
                   Throw([pr EXCEPT !.fault = TRUE], StorageErrLen)]
  /\ UNCHANGED <<jobExists, job, queue, invocations, vin, vout, store, net, api,
                 score>>

\* fingering_tasks.py:80-82
FingRelabel(p) ==
  LET pr == procs[p] IN
  /\ pr.pc = "fing_relabel"
  /\ IF pr.outArt \in DOMAIN artifacts
       THEN /\ artifacts' =
                 [artifacts EXCEPT ![pr.outArt].artifact_type = "ir_v2"]
            /\ procs' = [procs EXCEPT ![p] =
                 [pr EXCEPT !.pc = "fing_set_completed"]]
       ELSE /\ artifacts' = artifacts
            /\ procs' = [procs EXCEPT ![p] =
                 Throw([pr EXCEPT !.fault = TRUE], StorageErrLen)]
  /\ UNCHANGED <<jobExists, job, queue, invocations, vin, vout, store, net, api,
                 score>>

\* rendering_tasks.py:53
RendLoad(p) ==
  LET pr == procs[p] IN
  /\ pr.pc = "rend_load"
  /\ \E ok \in BOOLEAN :
       LET e == LoadIr(pr.rArt, ok) IN
       procs' = [procs EXCEPT ![p] =
         IF e = NoMessage
           THEN [pr EXCEPT !.pc = "rend_health", !.retry = 0,
                           !.health = "none",
                           !.read = Object(StoragePath(pr.rArt))]
         ELSE Throw([pr EXCEPT !.fault = TRUE], e)]
  /\ UNCHANGED <<jobExists, job, artifacts, queue, invocations, vin, vout, store, net, api,
                 score>>

\* the bodies a renderer can answer with
RenderResponses ==
  {RenderResponse(TRUE, TRUE, {"musicxml", "midi", "svg"}, TRUE, TRUE, n, 0) :
     n \in 1..MaxPages}
  \cup {RenderResponse(TRUE, TRUE, {"musicxml", "midi", "svg", "png"},
                       TRUE, TRUE, 1, 1),
        RenderResponse(FALSE, FALSE, {}, FALSE, FALSE, 0, 0),
        RenderResponse(TRUE, FALSE, {}, FALSE, FALSE, 0, 0),
        RenderResponse(TRUE, TRUE, {"musicxml", "svg"}, FALSE, TRUE, 1, 0),
        RenderResponse(TRUE, TRUE, {"musicxml", "midi", "svg"},
                       FALSE, TRUE, 1, 0),
        RenderResponse(TRUE, TRUE, {"musicxml", "midi", "svg"},
                       TRUE, FALSE, 0, 0),
        RenderResponse(TRUE, TRUE, {"musicxml", "midi", "svg"},
                       TRUE, TRUE, 0, 0)}

\* rendering_tasks.py:185-217: the length of the ValueError raised, or NoMessage
ValidateRenderResponse(r) ==
  IF ~r.hasFormats THEN 41
  ELSE IF ~r.isDict THEN 70
  ELSE IF {"musicxml", "midi", "svg"} \ r.keys # {} THEN 95
  ELSE IF "svg" \in r.keys /\ ~r.svgIsList THEN 65
  ELSE IF "svg" \in r.keys /\ r.svg = 0 THEN 37
  ELSE NoMessage

\* rendering_tasks.py:73-78, :84-98: what one GET of /health can end in: a 200,
\* another status, a timeout, a connection error, any other exception
HealthOutcomes == {"ok", "status", "timeout", "connect", "error"}

\* mutant: a renderer that never passed the health check fails the stage
HealthEnd_raises(pr, passed) ==
  IF passed
    THEN [pr EXCEPT !.pc = "rend_call", !.retry = 0, !.health = "passed"]
    ELSE Throw([pr EXCEPT !.retry = 0, !.health = "failed"], 52)

\* rendering_tasks.py:79, :103-107: the loop is left, with a warning when no
\* attempt passed, and the request is sent next
HealthEnd(pr, passed) ==
  [pr EXCEPT !.pc = "rend_call", !.retry = 0,
             !.health = IF passed THEN "passed" ELSE "failed"]

\* rendering_tasks.py:69-101: one pass of the health-check loop; pr.retry is
\* the loop variable and pr.health what the loop ended with
RendHealth(p) ==
  LET pr == procs[p] IN
  /\ pr.pc = "rend_health"
  /\ \E out \in HealthOutcomes :
       procs' = [procs EXCEPT ![p] =
         IF out = "ok" THEN HealthEnd(pr, TRUE)
         ELSE IF pr.retry + 1 < 3 THEN [pr EXCEPT !.retry = pr.retry + 1]
         ELSE HealthEnd(pr, FALSE)]
  /\ UNCHANGED <<jobExists, job, artifacts, queue, invocations, vin, vout, store, net, api,
                 score>>

\* rendering_tasks.py:109-217: the request is sent once, and a transport
\* error, a non-200 status or an unparsable body raises
RenderOutcomes == {"ok", "transport", "http", "badjson"}

RendCall(p) ==
  LET pr == procs[p] IN
  /\ pr.pc = "rend_call"
  /\ \E out \in RenderOutcomes, r \in RenderResponses :
       procs' = [procs EXCEPT ![p] =
         IF out # "ok" THEN Throw([pr EXCEPT !.svc = out], ServiceErrLen(out))
         ELSE IF ValidateRenderResponse(r) # NoMessage
           THEN Throw([pr EXCEPT !.svc = "incomplete"],
                      ValidateRenderResponse(r))
           ELSE [pr EXCEPT !.pc = "rend_store", !.svc = "ok",
                           !.resp = r]]
  /\ UNCHANGED <<jobExists, job, artifacts, queue, invocations, vin, vout, store, net, api,
                 score>>

\* mutant: the row is inserted without its parent
StoreArtifact_no_parent(rows, type, parent) ==
  Append(rows, Artifact(Len(rows) + 1, type, "1.0.0", NoArtifact))

\* artifact_service.py:86-121: the row store_artifact inserts and commits
StoreArtifact(rows, type, parent) ==
  Append(rows, Artifact(Len(rows) + 1, type, "1.0.0", parent))

\* mutant: only the first svg page is stored
StorePlan_first_page(r) ==
  <<"musicxml", "midi", "svg">>
    \o (IF "png" \in r.keys THEN [i \in 1..r.png |-> "png"] ELSE <<>>)

\* rendering_tasks.py:219-286: the store_artifact calls the handler makes for
\* a validated response, in order: musicxml, midi, every svg page, every png
\* page
StorePlan(r) ==
  <<"musicxml", "midi">> \o [i \in 1..r.svg |-> "svg"]
    \o (IF "png" \in r.keys THEN [i \in 1..r.png |-> "png"] ELSE <<>>)

\* The first call of the plan that cannot be made, or 0: base64.b64decode of
\* line 237 raises on a malformed payload, and ArtifactType (models/
\* artifact.py:15-23) has no PNG member, so line 275 raises AttributeError.
FirstImpossible(r) ==
  IF ~r.midiOk THEN 2
  ELSE IF "png" \in r.keys /\ r.png > 0 THEN 2 + r.svg + 1
  ELSE 0

RECURSIVE StoreAll(_, _, _)
StoreAll(rows, types, parent) ==
  IF types = <<>> THEN rows
  ELSE StoreAll(StoreArtifact(rows, Head(types), parent), Tail(types), parent)

\* rendering_tasks.py:219-291: each store_artifact commits its own row
\* (artifact_service.py:119), so the calls made before one raises stay; k is
\* the number of calls that succeed.
RendStoreOutputs(p) ==
  LET pr == procs[p]
      plan == StorePlan(pr.resp)
      stop == FirstImpossible(pr.resp)
      last == IF stop = 0 THEN Len(plan) ELSE stop - 1
  IN /\ pr.pc = "rend_store"
     /\ \E k \in 0..(IF jobExists THEN last ELSE 0) :
          /\ artifacts' = StoreAll(artifacts, SubSeq(plan, 1, k), pr.rArt)
          /\ procs' = [procs EXCEPT ![p] =
               LET q == [pr EXCEPT
                           !.made = pr.made \cup
                                    (Len(artifacts) + 1)..(Len(artifacts) + k)]
               IN IF k = Len(plan)
                    THEN [q EXCEPT !.pc = "rend_set_completed"]
                  ELSE IF k = last /\ jobExists THEN Throw(q, 47)
                  ELSE Throw([q EXCEPT !.fault = TRUE], StorageErrLen)]
     /\ UNCHANGED <<jobExists, job, queue, invocations, vin, vout, store, net, api,
                 score>>

\* ------------------------------------------------------- the specification
\* The quiescent states the model starts in: no job; the job and its PDF
\* artifact as create_job commits them (job_service.py:38-65); and the same job
\* after an OMR run that stored the IR and queued the fingering task.
Quiescent ==
  \/ /\ jobExists = FALSE
     /\ job = NewJob
     /\ artifacts = <<>>
     /\ queue = {}
  \/ /\ jobExists = TRUE
     /\ job = NewJob
     /\ artifacts = <<Artifact(1, "pdf", "1.0.0", NoArtifact)>>
     /\ queue = {}
  \/ /\ jobExists = TRUE
     /\ job = [NewJob EXCEPT !.status = "omr_completed"]
     /\ artifacts = StoreIr(<<Artifact(1, "pdf", "1.0.0", NoArtifact)>>,
                            "1.0.0", 1)
     /\ queue = {2}

\* no handler has been started, and the validator has not been asked
NothingStarted ==
  /\ procs = [p \in Procs |-> IdleProc]
  /\ invocations = 0
  /\ store = EmptyStore
  /\ net = NoCall
  /\ api = NoRequest
  /\ score = NoScore
  /\ vin = <<"pending", "pending">>
  /\ vout = [set |-> FALSE, ok |-> FALSE, msg |-> NoMessage]

Init == Quiescent /\ NothingStarted

\* a worker starts a handler
Invoke(p) ==
  \/ InvokeOmr(p)
  \/ \E a \in queue : InvokeFingering(p, a)
  \/ \E a \in DOMAIN artifacts : InvokeRendering(p, a)

\* a running handler goes on to its next await
Step(p) ==
  \/ ReadJob(p)
  \/ CommitJob(p)
  \/ OmrGetJob(p)
  \/ OmrGetPdf(p)
  \/ OmrDownload(p)
  \/ OmrCall(p)
  \/ OmrStore(p)
  \/ OmrTrigger(p)
  \/ FingLoad(p)
  \/ FingCall(p)
  \/ FingStore(p)
  \/ FingRelabel(p)
  \/ RendLoad(p)
  \/ RendHealth(p)
  \/ RendCall(p)
  \/ RendStoreOutputs(p)

Next == \E p \in Procs : Invoke(p) \/ Step(p)

Spec == Init /\ [][Next]_vars

\* One handler at a time: a caller that awaits each handler before it starts
\* the next, as tests/test_omr_integration.py:38-176 does.
Quiet == \A q \in Procs : procs[q].pc \in {"idle", "done"}

\* Job rows as the handlers' callers can hand them over beside the quiescent
\* ones: a pending job that owns no PDF artifact
\* (tests/test_omr_integration.py:243-259), and a job left in
\* fingering_completed with its ir_v2 artifact, which is what the database
\* holds between lines 87 and 95 of fingering_tasks.py
\* (tests/test_rendering_integration.py:52-110).
HandedOver ==
  \/ /\ jobExists = TRUE
     /\ job = NewJob
     /\ artifacts = <<>>
     /\ queue = {}
  \/ /\ jobExists = TRUE
     /\ job = [NewJob EXCEPT !.status = "fingering_completed"]
     /\ artifacts =
          [StoreIr(StoreIr(<<Artifact(1, "pdf", "1.0.0", NoArtifact)>>,
                           "1.0.0", 1), "2.0.0", 2)
             EXCEPT ![3].artifact_type = "ir_v2"]
     /\ queue = {2}

InitSolo == (Quiescent \/ HandedOver) /\ NothingStarted

\* a direct call of a task's coroutine with an id that is no artifact
Call(p) ==
  \/ CallFingering(p, UnknownArtifact)
  \/ CallRendering(p, UnknownArtifact)

NextSolo ==
  \E p \in Procs : (Quiet /\ (Invoke(p) \/ Call(p))) \/ Step(p)

SpecSolo == InitSolo /\ [][NextSolo]_vars

\* The event loop resumes a handler whenever the await it stands at has
\* ended, and each await ends: the HTTP clients have timeouts (omr_client.py,
\* fingering_client.py, rendering_tasks.py:74, :110) and the loops of the
\* rendering handler are bounded.
SpecSoloLive == SpecSolo /\ \A p \in Procs : WF_vars(Step(p))

\* ------------------------------------------- store_artifact step by step
\* no create_job or delete_job is in progress
ApiIdle == api.pc \in {"idle", "returned", "raised", "not_found"}

\* no store_artifact call is in progress
StoreIdle == store.pc \in {"idle", "stored", "raised"}

\* the call raised: the session is dropped with the row it may hold, and
\* nothing is done about the objects already written
StoreRaise == [store EXCEPT !.pc = "raised"]

\* artifact_service.py:58-81: the checksum, the placeholder key and the first
\* upload, which writes the object or raises
StoreUpload(data, type, parent) ==
  /\ StoreIdle
  /\ Quiet
  /\ ApiIdle
  /\ store.calls < MaxStores
  /\ LET s == [store EXCEPT !.data = data, !.type = type, !.id = NoArtifact,
                            !.parent = parent, !.calls = @ + 1]
     IN \E ok \in BOOLEAN :
          store' = IF ok
                     THEN [s EXCEPT !.pc = "store_flush",
                                    !.blobs = Upload(@, PlaceholderKey, data)]
                     ELSE [s EXCEPT !.pc = "raised"]
  /\ UNCHANGED <<jobExists, job, artifacts, queue, procs, invocations,
                 vin, vout, net, api, score>>

\* an artifact row of another job
ForeignArtifact == 98

\* the ids of the artifact rows of this job, and of all jobs
OwnArtifacts == DOMAIN artifacts \cup DOMAIN store.rows

AllArtifacts == OwnArtifacts \cup {ForeignArtifact}

\* alembic/versions/001_initial_schema.py:66-67: the foreign keys of an
\* artifact row, job_id to jobs.id and parent_artifact_id to artifacts.id
ForeignKeysHold(parent) ==
  /\ jobExists
  /\ parent = NoArtifact \/ parent \in AllArtifacts

\* artifact_service.py:84-95: the row is added and flushed, which gives it
\* its id, or the flush raises, as it does when a foreign key fails
StoreFlush ==
  /\ store.pc = "store_flush"
  /\ \E ok \in {b \in BOOLEAN : b => ForeignKeysHold(store.parent)} :
       store' = IF ok
                  THEN [store EXCEPT
                          !.pc = "store_reupload",
                          !.id = Len(artifacts) + store.issued + 1,
                          !.issued = @ + 1]
                  ELSE StoreRaise
  /\ UNCHANGED <<jobExists, job, artifacts, queue, procs, invocations,
                 vin, vout, net, api, score>>

\* artifact_service.py:98-101: the upload under the key of the row's id
StoreReupload ==
  /\ store.pc = "store_reupload"
  /\ \E ok \in BOOLEAN :
       store' = IF ok
                  THEN [store EXCEPT !.pc = "store_delete",
                                     !.blobs = Upload(@, store.id, store.data)]
                  ELSE StoreRaise
  /\ UNCHANGED <<jobExists, job, artifacts, queue, procs, invocations,
                 vin, vout, net, api, score>>

\* artifact_service.py:103-104 and storage_service.py:93-107: delete_file
\* removes the placeholder object, or catches the ClientError and leaves it
StoreDelete ==
  /\ store.pc = "store_delete"
  /\ \E ok \in BOOLEAN :
       store' = [store EXCEPT
                   !.pc = "store_commit",
                   !.blobs = IF ok THEN Delete(@, PlaceholderKey) ELSE @]
  /\ UNCHANGED <<jobExists, job, artifacts, queue, procs, invocations,
                 vin, vout, net, api, score>>

\* the table with the row of id i added
Insert(rows, i, row) ==
  [k \in DOMAIN rows \cup {i} |-> IF k = i THEN row ELSE rows[k]]

\* mutant: an edge is recorded whether or not there is a parent
AddLineage_always(lineage, parent, derived) ==
  Append(lineage, [source |-> parent, derived |-> derived])

\* artifact_service.py:106-115: the lineage row, when a parent was given
AddLineage(lineage, parent, derived) ==
  IF parent # NoArtifact
    THEN Append(lineage, [source |-> parent, derived |-> derived])
    ELSE lineage

\* artifact_service.py:106-119: the commit makes the row, whose storage_path
\* is the key of the second upload, and the lineage row, or raises
StoreCommit ==
  /\ store.pc = "store_commit"
  /\ \E ok \in BOOLEAN :
       store' =
         IF ok
           THEN [store EXCEPT
                   !.pc = "stored",
                   !.rows = Insert(@, store.id,
                              [artifact_type |-> store.type,
                               storage_path |-> store.id,
                               checksum |-> Sha256(store.data),
                               file_size |-> 1,
                               parent_artifact_id |-> store.parent]),
                   !.lineage = AddLineage(@, store.parent, store.id),
                   !.given = Insert(@, store.id, store.data)]
           ELSE StoreRaise
  /\ UNCHANGED <<jobExists, job, artifacts, queue, procs, invocations,
                 vin, vout, net, api, score>>

\* artifact_service.py:121-144: get_artifact gives None for an id that is no
\* row, raises FileNotFoundError when the object is gone, and else gives the
\* row and the bytes it downloaded
GetArtifact(i) ==
  /\ StoreIdle
  /\ Quiet
  /\ store' = [store EXCEPT !.got =
       IF i \notin DOMAIN store.rows \cup DOMAIN artifacts
         THEN [kind |-> "missing", id |-> i, data |-> 0]
       ELSE IF StoragePath(i) \notin ObjectKeys
         THEN [kind |-> "not_found", id |-> i, data |-> 0]
       ELSE [kind |-> "data", id |-> i, data |-> Object(StoragePath(i))]]
  /\ UNCHANGED <<jobExists, job, artifacts, queue, procs, invocations,
                 vin, vout, net, api, score>>

\* something other than the service replaces the bytes of an object
Alter(k, b) ==
  /\ StoreIdle
  /\ Quiet
  /\ k \in ObjectKeys
  /\ b # Object(k)
  /\ store' = [store EXCEPT !.blobs = Upload(@, k, b)]
  /\ UNCHANGED <<jobExists, job, artifacts, queue, procs, invocations,
                 vin, vout, net, api, score>>

\* the parent_artifact_id a caller may pass: none, an artifact of the job,
\* and, as store_ir_for_job (api/v1/ir.py:85-131) passes on the id it was
\* sent, an artifact of another job or no artifact at all
Parents ==
  {NoArtifact, ForeignArtifact, UnknownArtifact} \cup OwnArtifacts

\* a call of store_artifact with a payload and a parent of the given sets,
\* and its steps
StoreCall(payloads, parents) ==
  \E data \in payloads, type \in {"musicxml", "midi"}, parent \in parents :
    StoreUpload(data, type, parent)

StoreRest == StoreFlush \/ StoreReupload \/ StoreDelete \/ StoreCommit

StoreStep == StoreCall(Bytes, {NoArtifact}) \/ StoreRest

Get == \E i \in DOMAIN store.rows \cup DOMAIN artifacts \cup {UnknownArtifact} :
         GetArtifact(i)

\* the sources (side = "source") or the derived artifacts of a sequence of
\* lineage rows, each joined with its artifact row
JoinArtifacts(edges, side) ==
  LET joined == SelectSeq(edges, LAMBDA e :
                  (IF side = "source" THEN e.source ELSE e.derived)
                    \in AllArtifacts)
  IN [n \in 1..Len(joined) |->
        IF side = "source" THEN joined[n].source ELSE joined[n].derived]

\* artifact_service.py:160-182: get_artifact_lineage
GetArtifactLineage(i) ==
  /\ StoreIdle
  /\ Quiet
  /\ store' = [store EXCEPT !.lin =
       [id |-> i,
        ancestors |->
          JoinArtifacts(SelectSeq(store.lineage, LAMBDA e : e.derived = i),
                        "source"),
        descendants |->
          JoinArtifacts(SelectSeq(store.lineage, LAMBDA e : e.source = i),
                        "derived")]]
  /\ UNCHANGED <<jobExists, job, artifacts, queue, procs, invocations,
                 vin, vout, net, api, score>>

GetLineage == \E i \in OwnArtifacts : GetArtifactLineage(i)

\* ------------------------------------------- create_job and delete_job
\* job_service.py:47: jobs/{job.id}/artifacts/{job.id}_pdf.pdf, the one key of
\* a job that holds no artifact id; it is named here by the id of the PDF's
\* row, the first row of the job
PdfKey == 1

\* mutant: the checksum column gets the bytes themselves
PdfRow_unhashed(data) ==
  [artifact_type |-> "pdf", storage_path |-> PdfKey,
   checksum |-> data, file_size |-> 1,
   parent_artifact_id |-> NoArtifact]

\* job_service.py:46-60: the artifact row of the uploaded PDF
PdfRow(data) ==
  [artifact_type |-> "pdf", storage_path |-> PdfKey,
   checksum |-> Sha256(data), file_size |-> 1,
   parent_artifact_id |-> NoArtifact]

\* job_service.py:38-45: the job is added and flushed, or the flush raises;
\* nothing is committed yet
CreateFlush(data) ==
  /\ api = NoRequest
  /\ ~jobExists
  /\ StoreIdle
  /\ \E ok \in BOOLEAN :
       api' = [api EXCEPT !.op = "create", !.data = data,
                          !.pc = IF ok THEN "create_upload" ELSE "raised"]
  /\ UNCHANGED <<jobExists, job, artifacts, queue, procs, invocations,
                 vin, vout, store, net, score>>

\* job_service.py:46-51: the checksum and the upload of the PDF, which
\* writes the object or raises
CreateUpload ==
  /\ api.pc = "create_upload"
  /\ \E ok \in BOOLEAN :
       IF ok
         THEN /\ store' = [store EXCEPT !.blobs = Upload(@, PdfKey, api.data)]
              /\ api' = [api EXCEPT !.pc = "create_commit"]
         ELSE /\ store' = store
              /\ api' = [api EXCEPT !.pc = "raised"]
  /\ UNCHANGED <<jobExists, job, artifacts, queue, procs, invocations,
                 vin, vout, net, score>>

\* job_service.py:53-67: the artifact row is added and one commit makes the
\* job and the artifact, or raises and makes neither
CreateCommit ==
  /\ api.pc = "create_commit"
  /\ \E ok \in BOOLEAN :
       IF ok
         THEN /\ jobExists' = TRUE
              /\ job' = NewJob
              /\ artifacts' = <<Artifact(1, "pdf", "1.0.0", NoArtifact)>>
              /\ store' = [store EXCEPT
                             !.rows = Insert(@, 1, PdfRow(api.data)),
                             !.given = Insert(@, 1, api.data)]
              /\ api' = [api EXCEPT !.pc = "returned"]
         ELSE /\ UNCHANGED <<jobExists, job, artifacts, store, score>>
              /\ api' = [api EXCEPT !.pc = "raised"]
  /\ UNCHANGED <<queue, procs, invocations, vin, vout, net, score>>

CreateStep ==
  \/ \E data \in Bytes : CreateFlush(data)
  \/ CreateUpload
  \/ CreateCommit

\* job_service.py:182-187: delete_job returns False for a job that is no
\* row, and else lists the artifact rows of the job; a behaviour has one
\* call of delete_job
DeleteList ==
  /\ ApiIdle
  /\ api.op # "delete"
  /\ StoreIdle
  /\ api' = [api EXCEPT
               !.op = "delete",
               !.pc = IF jobExists THEN "delete_blobs" ELSE "not_found",
               !.listed = IF jobExists THEN OwnArtifacts ELSE {},
               !.failed = {},
               !.during = ~Quiet]
  /\ UNCHANGED <<jobExists, job, artifacts, queue, procs, invocations,
                 vin, vout, store, net, score>>

\* job_service.py:189-196 and storage_service.py:93-107: delete_file for the
\* object of each listed artifact; it returns False, and the loop goes on,
\* when the store answers with a ClientError
DeleteBlobs(failed) ==
  /\ api.pc = "delete_blobs"
  /\ failed \subseteq api.listed
  /\ LET keys == {StoragePath(i) : i \in api.listed \ failed}
     IN store' = [store EXCEPT
                    !.blobs = [k \in DOMAIN @ \ keys |-> @[k]],
                    !.gone = @ \cup keys]
  /\ api' = [api EXCEPT !.pc = "delete_commit", !.failed = failed]
  /\ UNCHANGED <<jobExists, job, artifacts, queue, procs, invocations,
                 vin, vout, net, score>>

\* the objects that stay when the rows of the job go: those in store.blobs,
\* and those of the rows whose object was not removed
Leftover ==
  [k \in ObjectKeys |-> Object(k)]

\* job_service.py:198-201 and 001_initial_schema.py:66-67, :83-84: the job
\* row is deleted and the commit cascades to the artifact and lineage rows
\* of the job, those committed since the listing included; or the commit
\* raises
DeleteCommit ==
  /\ api.pc = "delete_commit"
  /\ \E ok \in BOOLEAN :
       IF ok
         THEN /\ jobExists' = FALSE
              /\ artifacts' = <<>>
              /\ store' = [store EXCEPT
                             !.blobs = Leftover, !.gone = {},
                             !.rows = <<>>, !.given = <<>>,
                             !.lineage = <<>>]
              /\ api' = [api EXCEPT !.pc = "returned"]
         ELSE /\ UNCHANGED <<jobExists, artifacts, store, score>>
              /\ api' = [api EXCEPT !.pc = "raised"]
  /\ UNCHANGED <<job, queue, procs, invocations, vin, vout, net, score>>

DeleteStep ==
  \/ DeleteList
  \/ \E failed \in SUBSET api.listed : DeleteBlobs(failed)
  \/ DeleteCommit

\* callers that store and read artifacts
NextStore == StoreStep \/ Get

SpecStore == Init /\ [][NextStore]_vars

\* callers that store artifacts with parents and ask for lineages; the
\* payload plays no part
NextLineage == StoreCall({1}, Parents) \/ StoreRest \/ GetLineage

SpecLineage == Init /\ [][NextLineage]_vars

\* callers of the API, one request at a time: a job is created, artifacts
\* are stored and read, the job is deleted
InitApi ==
  /\ jobExists = FALSE
  /\ job = NewJob
  /\ artifacts = <<>>
  /\ queue = {}
  /\ NothingStarted

NextApi == CreateStep \/ StoreStep \/ Get \/ DeleteStep

SpecApi == InitApi /\ [][NextApi]_vars

\* one handler at a time, and a delete_job that runs beside it
NextSoloDelete == NextSolo \/ DeleteStep

SpecSoloDelete == Init /\ [][NextSoloDelete]_vars

\* the same, with objects that are altered behind the service's back
AlterAny == \E k \in ObjectKeys, b \in Bytes : Alter(k, b)

NextAltered == StoreStep \/ Get \/ AlterAny

SpecAltered == Init /\ [][NextAltered]_vars

\* one handler at a time, on artifacts whose objects were altered before the
\* first handler started
AlterInput == invocations = 0 /\ AlterAny

NextSoloAltered == NextSolo \/ AlterInput

SpecSoloAltered == InitSolo /\ [][NextSoloAltered]_vars

\* ------------------------------------------------- the clients on their own
\* rendering_tasks.py:106-171: the handler posts to /render once; whatever the
\* post meets, no second post follows
RenderCallOnce(out) == [kind |-> out, attempts |-> 1]

\* what the three attempts of a call would meet, for each client
InitClient ==
  /\ Quiescent
  /\ procs = [p \in Procs |-> IdleProc]
  /\ invocations = 0
  /\ store = EmptyStore
  /\ vin = <<"pending", "pending">>
  /\ vout = [set |-> FALSE, ok |-> FALSE, msg |-> NoMessage]
  /\ api = NoRequest
  /\ score = NoScore
  /\ net \in [client : {"omr", "fingering"},
               outs : [1..3 -> AttemptOutcomes],
               result : {NoResult}]
             \cup
             [client : {"renderer"},
              outs : [1..3 -> {"ok", "transport", "http", "badjson"}],
              result : {NoResult}]

\* omr_client.py:48-120, fingering_client.py:48-115: process_pdf and
\* infer_fingering under tenacity's retry
ClientCall ==
  /\ net.client \in {"omr", "fingering"}
  /\ net.result = NoResult
  /\ net' = [net EXCEPT !.result = RetryCall(net.outs)]
  /\ UNCHANGED <<jobExists, job, artifacts, queue, procs, invocations,
                 vin, vout, store, api, score>>

\* rendering_tasks.py:106-171
RenderPost ==
  /\ net.client = "renderer"
  /\ net.result = NoResult
  /\ net' = [net EXCEPT !.result = RenderCallOnce(net.outs[1])]
  /\ UNCHANGED <<jobExists, job, artifacts, queue, procs, invocations,
                 vin, vout, store, api, score>>

NextClient == ClientCall \/ RenderPost

SpecClient == InitClient /\ [][NextClient]_vars

\* ------------------------------------------- the renderer's voice resolver
\* The notes of a score are dicts; a note is modelled by the keys
\* resolve_voices reads and the one it writes. Onsets are counted in
\* hundredths of a second.
MaxNotes == 3

Pitches == {60, 64, 67}

Onsets == 0..2

Staves == {"staff_0", "staff_1"}

\* the note has no "resolved_voice" key
NoVoice == 0

\* voice_resolver.py:65: tolerance = 0.01 seconds
Tolerance == 1

\* v1/note.py:46: note_id is unique within an IR; a note is named by its place
\* in the list
Note(i, raw) ==
  [note_id |-> i, midi_note |-> raw.midi_note,
   onset_seconds |-> raw.onset_seconds, staff_id |-> raw.staff_id,
   resolved_voice |-> NoVoice]

\* list.sort(key=onset) and sorted(key=pitch, reverse=True) are stable: x goes
\* behind the notes of t that are not behind it in the order
InsertByOnset(t, x) ==
  LET k == Cardinality({j \in 1..Len(t) :
                          t[j].onset_seconds <= x.onset_seconds})
  IN SubSeq(t, 1, k) \o <<x>> \o SubSeq(t, k + 1, Len(t))

\* voice_resolver.py:45
RECURSIVE SortedByOnset(_)
SortedByOnset(notes) ==
  IF notes = <<>> THEN <<>>
  ELSE InsertByOnset(SortedByOnset(SubSeq(notes, 1, Len(notes) - 1)),
                     notes[Len(notes)])

\* mutant: the lowest note comes first
InsertByPitch_ascending(t, x) ==
  LET k == Cardinality({j \in 1..Len(t) : t[j].midi_note <= x.midi_note})
  IN SubSeq(t, 1, k) \o <<x>> \o SubSeq(t, k + 1, Len(t))

InsertByPitch(t, x) ==
  LET k == Cardinality({j \in 1..Len(t) : t[j].midi_note >= x.midi_note})
  IN SubSeq(t, 1, k) \o <<x>> \o SubSeq(t, k + 1, Len(t))

\* voice_resolver.py:107-109
RECURSIVE SortedByPitch(_)
SortedByPitch(group) ==
  IF group = <<>> THEN <<>>
  ELSE InsertByPitch(SortedByPitch(SubSeq(group, 1, Len(group) - 1)),
                     group[Len(group)])

Abs(x) == IF x < 0 THEN -x ELSE x

\* voice_resolver.py:77-90: the loop over notes[1:], and the last group
RECURSIVE GroupRest(_, _, _, _)
GroupRest(rest, groups, current_group, current_onset) ==
  IF rest = <<>> THEN Append(groups, current_group)
  ELSE LET note == Head(rest)
           onset == note.onset_seconds
       IN IF Abs(onset - current_onset) <= Tolerance
            THEN GroupRest(Tail(rest), groups, Append(current_group, note),
                           current_onset)
            ELSE GroupRest(Tail(rest), Append(groups, current_group),
                           <<note>>, onset)

\* voice_resolver.py:62-92: _group_simultaneous_notes
GroupSimultaneousNotes(notes) ==
  IF notes = <<>> THEN <<>>
  ELSE GroupRest(Tail(notes), <<>>, <<notes[1]>>, notes[1].onset_seconds)

Min2(a, b) == IF a < b THEN a ELSE b

\* voice_resolver.py:112-114: the voices of one group, written into the dict
RECURSIVE AssignGroup(_, _, _, _)
AssignGroup(assignments, sorted_notes, i, max_voices) ==
  IF i > Len(sorted_notes) THEN assignments
  ELSE AssignGroup(
         [id \in DOMAIN assignments \cup {sorted_notes[i].note_id} |->
            IF id = sorted_notes[i].note_id THEN Min2(i, max_voices)
            ELSE assignments[id]],
         sorted_notes, i + 1, max_voices)

\* voice_resolver.py:94-116: _assign_voices_optimally, a dict from note_id to
\* voice
RECURSIVE AssignVoicesOptimally(_, _, _)
AssignVoicesOptimally(assignments, chord_groups, max_voices) ==
  IF chord_groups = <<>> THEN assignments
  ELSE AssignVoicesOptimally(
         AssignGroup(assignments, SortedByPitch(Head(chord_groups)), 1,
                     max_voices),
         Tail(chord_groups), max_voices)

\* voice_resolver.py:21-60: resolve_voices, the list it returns
resolve_voices(notes, staff_id, max_voices) ==
  LET staff_notes == SelectSeq(notes, LAMBDA n : n.staff_id = staff_id)
      chord_groups == GroupSimultaneousNotes(SortedByOnset(staff_notes))
      voice_assignments ==
        AssignVoicesOptimally(<<>>, chord_groups, max_voices)
  IN IF Len(staff_notes) = 0 THEN notes
     ELSE [i \in 1..Len(notes) |->
             IF notes[i].note_id \in DOMAIN voice_assignments
               THEN [notes[i] EXCEPT
                       !.resolved_voice = voice_assignments[notes[i].note_id]]
               ELSE notes[i]]

\* the lists of up to MaxNotes notes, the staff and the max_voices a call of
\* resolve_voices is made with (main.py:525-533, config.py:23)
InitVoices ==
  /\ jobExists = FALSE
  /\ job = NewJob
  /\ artifacts = <<>>
  /\ queue = {}
  /\ procs = [p \in Procs |-> IdleProc]
  /\ invocations = 0
  /\ store = EmptyStore
  /\ net = NoCall
  /\ api = NoRequest
  /\ vin = <<"pending", "pending">>
  /\ vout = [set |-> FALSE, ok |-> FALSE, msg |-> NoMessage]
  /\ \E n \in 0..MaxNotes :
       \E raw \in [1..n -> [midi_note : Pitches, onset_seconds : Onsets,
                            staff_id : Staves]] :
         \E staff_id \in Staves, max_voices \in {2, 4} :
           score = [notes |-> [i \in 1..n |-> Note(i, raw[i])],
                    staff_id |-> staff_id, max_voices |-> max_voices,
                    resolved |-> FALSE]

ResolveVoices ==
  /\ ~score.resolved
  /\ score.staff_id # "none"
  /\ score' = [score EXCEPT
                 !.notes = resolve_voices(@, score.staff_id, score.max_voices),
                 !.resolved = TRUE]
  /\ UNCHANGED <<jobExists, job, artifacts, queue, procs, invocations, vin,
                 vout, store, net, api>>

NextVoices == ResolveVoices

SpecVoices == InitVoices /\ [][NextVoices]_vars

\* ------------------------------------------------ the validator on its own
\* validate_transition is pure: the inputs are drawn by InitV, and the one
\* action applies it.
InitV ==
  /\ jobExists = FALSE
  /\ job = NewJob
  /\ artifacts = <<>>
  /\ queue = {}
  /\ procs = [p \in Procs |-> IdleProc]
  /\ invocations = 0
  /\ store = EmptyStore
  /\ net = NoCall
  /\ api = NoRequest
  /\ score = NoScore
  /\ vin \in (JobStatus \cup UnknownStatus) \X (JobStatus \cup UnknownStatus)
  /\ vout = [set |-> FALSE, ok |-> FALSE, msg |-> NoMessage]

\* state_machine.py:51-72: (is_valid, error_message)
Validate ==
  /\ ~vout.set
  /\ vout' = [set |-> TRUE,
              ok |-> validate_transition(vin[1], vin[2]).ok,
              msg |-> validate_transition(vin[1], vin[2]).msg]
  /\ UNCHANGED <<jobExists, job, artifacts, queue, procs, invocations, vin,
                 store, net, api, score>>

NextV == Validate

SpecV == InitV /\ [][NextV]_vars

\* C2: validate_transition(a, b) answers (True, None) exactly when a is one of
\* the ten statuses and b is in a's adjacency set; for every other pair, an
\* unknown a or b included, it answers False with a non-empty reason.
C2_ValidateIsTheTable ==
  vout.set =>
    LET legal == /\ vin[1] \in JobStatus
                 /\ vin[2] \in JobStatus
                 /\ vin[2] \in VALID_TRANSITIONS[vin[1]]
    IN /\ vout.ok <=> legal
       /\ vout.ok => vout.msg = NoMessage
       /\ ~vout.ok => vout.msg > 0

\* the validator has answered for a pair of two known statuses that is not an
\* edge, and has rejected it with a reason
C2_Witness ==
  /\ vout.set
  /\ vin = <<"omr_completed", "omr_failed">>
  /\ ~vout.ok
  /\ vout.msg > 0

\* ------------------------------------------- JobService with record_error
\* job_service.py:154-166: record_error(job_id, error_message) loads the job,
\* assigns the three columns and commits; a job that is not found raises and
\* changes nothing.
RecordError ==
  /\ jobExists
  /\ job' = [job EXCEPT !.error_message = StorageErrLen,
                        !.status = "failed",
                        !.completed_at = TRUE]
  /\ UNCHANGED <<jobExists, artifacts, queue, procs, invocations, vin, vout, store, net, api,
                 score>>

NextService == Next \/ RecordError

SpecService == Init /\ [][NextService]_vars

\* ------------------------------------------------------------- the claims
Terminal == {"completed", "failed"}

\* invocation p is at the read of an update_job_status call and takes a step
Reads(p) ==
  /\ procs[p].pc \in UpdateSites
  /\ ~procs[p].upd
  /\ procs'[p] # procs[p]

\* invocation p commits an update_job_status call
Commits(p) ==
  /\ procs[p].pc \in UpdateSites
  /\ procs[p].upd
  /\ procs'[p] # procs[p]

\* C1: under any interleaving of update_job_status calls, two consecutive
\* persisted values of the job's status are an edge of VALID_TRANSITIONS.
C1_PersistedStatusFollowsEdges ==
  [][job'.status # job.status =>
       job'.status \in VALID_TRANSITIONS[job.status]]_vars

\* C3: completed and failed are absorbing: once the persisted status is one
\* of them, no later update_job_status call changes it.
C3_TerminalIsAbsorbing ==
  [][job.status \in Terminal => job'.status = job.status]_vars

\* C4: no JobService operation writes a status along an edge that
\* validate_transition does not accept; update_job_status validates in its
\* own call, so the status writes of the other operation, record_error, are
\* the ones followed here.
C4_EveryStatusWriteIsValidated ==
  [][(job'.status # job.status /\ ~\E p \in Procs : Commits(p)) =>
       validate_transition(job.status, job'.status).ok]_vars

C6_DuplicateDoesNotFailTheStage ==
  [][\A p \in Procs :
       (procs[p].dup /\ Commits(p)) =>
         job'.status # FailedOf(procs[p].kind)]_vars

\* the status a stage's handler expects to find
StartOf(kind) ==
  CASE kind = "omr" -> "pending"
    [] kind = "fingering" -> "omr_completed"
    [] kind = "rendering" -> "fingering_completed"

\* the types process_rendering_async stores (rendering_tasks.py:219-269)
OutputTypes == {"musicxml", "midi", "svg"}

\* invocation p is the only one, has ended, and an exception was raised in
\* the body of its handler
FailedAlone(p) ==
  /\ invocations = 1
  /\ procs[p].pc = "done"
  /\ procs[p].excAt # "none"
  /\ procs[p].start = StartOf(procs[p].kind)

\* C7: a handler in whose body a step raised, from the move to
\* <stage>_processing to the triggering of the next stage, leaves the job in
\* the stage's failed state, and the next stage is not triggered.
C7_FailureEndsInStageFailed ==
  \A p \in Procs :
    FailedAlone(p) =>
      /\ job.status = FailedOf(procs[p].kind)
      /\ procs[p].kind = "omr" => queue = {}

\* a run of process_omr_job, alone, on a pending job
OmrRunAlone(p) ==
  /\ invocations = 1
  /\ procs[p].kind = "omr"
  /\ procs[p].pc = "done"
  /\ procs[p].start = "pending"

\* C8: from a pending job with a PDF artifact, an OMR run whose client returned
\* a valid IR v1 (and whose storage and queue did not fail) ends with status
\* omr_completed and exactly one ir_v1 artifact, whose parent is the PDF.
C8_OmrSuccess ==
  \A p \in Procs :
    (OmrRunAlone(p) /\ procs[p].svc = "ok" /\ ~procs[p].fault) =>
      /\ job.status = "omr_completed"
      /\ Cardinality(ArtifactsOfType("ir_v1")) = 1
      /\ \A i \in ArtifactsOfType("ir_v1") :
           /\ artifacts[i].parent_artifact_id \in ArtifactsOfType("pdf")
           /\ artifacts[i].parent_artifact_id = procs[p].inArt

C8_Witness ==
  \E p \in Procs :
    /\ OmrRunAlone(p)
    /\ procs[p].svc = "ok"
    /\ ~procs[p].fault
    /\ job.status = "omr_completed"
    /\ queue = {procs[p].outArt}
    /\ artifacts[procs[p].outArt].artifact_type = "ir_v1"

\* the OMR client raised on every attempt it made: three transport errors
\* (tenacity's RetryError) or an HTTP error status, which is not retried
ClientRaised(p) == procs[p].svc \in {"retry_error", "http"}

\* C9: an OMR run whose client raises on every attempt ends with status
\* omr_failed, a non-empty error_message and no ir_v1 artifact.
C9_OmrClientFailure ==
  \A p \in Procs :
    (OmrRunAlone(p) /\ ClientRaised(p)) =>
      /\ job.status = "omr_failed"
      /\ job.error_message > 0
      /\ ArtifactsOfType("ir_v1") = {}

C9_Witness ==
  \E p \in Procs :
    /\ OmrRunAlone(p)
    /\ procs[p].svc = "retry_error"
    /\ procs[p].excAt = "omr_call"
    /\ job.status = "omr_failed"
    /\ job.error_message > 0

\* invocation p is the only one, and the rendering it ran (the task itself, or
\* the call of fingering_tasks.py:95) has raised
RenderingRaised(p) ==
  /\ invocations = 1
  /\ procs[p].rexcAt # "none"
  /\ procs[p].pc \in {"fing_set_render_failed", "done"}

\* C10: a rendering that ends in failure has raised, has left the job in
\* failed, and has created no musicxml, midi or svg artifact.
C10_RenderingAllOrNothing ==
  \A p \in Procs :
    RenderingRaised(p) =>
      /\ job.status = "failed"
      /\ \A i \in procs[p].made : artifacts[i].artifact_type \notin OutputTypes

\* a run of process_fingering_async, alone, on a job in omr_completed, ended
FingRunAlone(p) ==
  /\ invocations = 1
  /\ procs[p].kind = "fingering"
  /\ procs[p].pc = "done"
  /\ procs[p].start = "omr_completed"

\* C11: when process_fingering_async returns (which it does only after a
\* successful fingering call), the job is in fingering_completed and has
\* exactly one ir_v2 artifact, whose parent is the input ir_v1 artifact; here
\* for the runs in which nothing failed.
C11_FingeringSuccess ==
  \A p \in Procs :
    (FingRunAlone(p) /\ procs[p].result = "returned"
       /\ procs[p].rexcAt = "none") =>
      /\ job.status = "fingering_completed"
      /\ Cardinality(ArtifactsOfType("ir_v2")) = 1
      /\ \A i \in ArtifactsOfType("ir_v2") :
           artifacts[i].parent_artifact_id = procs[p].inArt

\* C12: a fingering run whose service call raises re-raises to its caller,
\* leaves the job in fingering_failed and creates no ir_v2 artifact.
C12_FingeringClientFailure ==
  \A p \in Procs :
    (FingRunAlone(p) /\ procs[p].excAt = "fing_call" /\ ClientRaised(p)) =>
      /\ procs[p].result = "raised"
      /\ job.status = "fingering_failed"
      /\ job.error_message > 0
      /\ ArtifactsOfType("ir_v2") = {}

C12_Witness ==
  \E p \in Procs :
    /\ FingRunAlone(p)
    /\ procs[p].excAt = "fing_call"
    /\ procs[p].svc = "http"
    /\ procs[p].result = "raised"
    /\ job.status = "fingering_failed"

\* the artifacts of a type that invocation p created
MadeOfType(p, t) == {i \in procs[p].made : artifacts[i].artifact_type = t}

\* Invocation p is the only one and its rendering, started on a job in
\* fingering_completed for the ir_v2 artifact rArt, has stored its outputs
\* without an exception.
RenderingStored(p) ==
  /\ invocations = 1
  /\ procs[p].rArt # NoArtifact
  /\ procs[p].rexcAt = "none"
  /\ procs[p].pc \in {"rend_set_completed", "done"}

\* C13: a rendering whose response has musicxml, midi and svg and no png ends
\* in completed, having stored one musicxml, one midi and one svg artifact per
\* svg page, each with the ir_v2 artifact as its parent.
C13_RenderingSuccess ==
  \A p \in Procs :
    RenderingStored(p) =>
      /\ procs[p].pc = "done" => job.status = "completed"
      /\ Cardinality(MadeOfType(p, "musicxml")) = 1
      /\ Cardinality(MadeOfType(p, "midi")) = 1
      /\ Cardinality(MadeOfType(p, "svg")) \in 1..MaxPages
      /\ procs[p].pc = "rend_set_completed" =>
           /\ "png" \notin procs[p].resp.keys
           /\ Cardinality(MadeOfType(p, "svg")) = procs[p].resp.svg
      /\ \A i \in procs[p].made :
           artifacts[i].artifact_type \in OutputTypes =>
             /\ artifacts[i].parent_artifact_id = procs[p].rArt
             /\ artifacts[procs[p].rArt].artifact_type = "ir_v2"

C13_Witness ==
  \E p \in Procs :
    /\ RenderingStored(p)
    /\ procs[p].pc = "done"
    /\ job.status = "completed"
    /\ Cardinality(MadeOfType(p, "svg")) = 2

\* invocation p, the only one, ran on a job in the status its stage expects,
\* and the input artifact it needs is no row: no PDF among the job's
\* artifacts, an unknown IR id
MissingInput(p) ==
  /\ invocations = 1
  /\ procs[p].pc = "done"
  /\ procs[p].start = StartOf(procs[p].kind)
  /\ \/ procs[p].kind = "omr" /\ ArtifactsOfType("pdf") = {}
     \/ /\ procs[p].kind \in {"fingering", "rendering"}
        /\ procs[p].inArt \notin DOMAIN artifacts

\* C14: a handler whose input artifact does not exist never calls its model
\* service, and the job moves to the stage's failed state.
C14_MissingInputFailsTheStage ==
  \A p \in Procs :
    MissingInput(p) =>
      /\ procs[p].svc = "none"
      /\ job.status = FailedOf(procs[p].kind)
      /\ job.error_message > 0

C14_Witness ==
  \E p \in Procs :
    /\ MissingInput(p)
    /\ procs[p].kind = "rendering"
    /\ procs[p].rexcAt = "rend_load"
    /\ job.status = "failed"

\* C15: a handler invoked for a job id that does not exist returns without
\* raising, calls no model service and creates nothing.
C15_MissingJobIsNoOp ==
  \A p \in Procs :
    (procs[p].pc = "done" /\ procs[p].start = "none") =>
      /\ procs[p].result = "returned"
      /\ procs[p].svc = "none"
      /\ procs[p].made = {}
      /\ ~jobExists
      /\ artifacts = <<>>

\* invocation p, the latest, is a re-invocation of the OMR or the fingering
\* handler on a job in the stage's failed state
Retrying(p) ==
  /\ invocations = p
  /\ procs[p].kind \in {"omr", "fingering"}
  /\ procs[p].pc # "idle"
  /\ procs[p].start = FailedOf(procs[p].kind)

\* C16: a job in omr_failed or fingering_failed can be retried: the handler's
\* move to <stage>_processing is accepted, the job is in <stage>_processing
\* while the stage works and, the service call and the store having
\* succeeded, in <stage>_completed; and failed is a legal successor as well.
C16_FailedStageCanBeRetried ==
  \A p \in Procs :
    Retrying(p) =>
      LET pr == procs[p] IN
      /\ pr.excAt \notin {"omr_set_processing", "omr_set_completed",
                          "fing_set_processing", "fing_set_completed"}
      /\ pr.pc \in {"omr_get_pdf", "omr_download", "omr_call", "omr_store",
                    "omr_set_completed", "fing_load", "fing_call",
                    "fing_store", "fing_relabel", "fing_set_completed"}
           => job.status = ProcessingOf(pr.kind)
      /\ pr.pc \in {"omr_trigger", "rend_set_processing"}
           => job.status = CompletedOf(pr.kind)
      /\ (pr.kind = "omr" /\ pr.pc = "done" /\ pr.svc = "ok" /\ ~pr.fault)
           => job.status = "omr_completed" /\ pr.outArt \in queue
      /\ validate_transition(pr.start, "failed").ok

C16_Witness ==
  \E p \in Procs :
    /\ Retrying(p)
    /\ procs[p].kind = "fingering"
    /\ procs[p].pc = "rend_set_processing"
    /\ job.status = "fingering_completed"

\* C17: get_artifact of an artifact that store_artifact stored gives exactly
\* the bytes that were stored, and their SHA-256 is the row's checksum.
C17_GetReturnsWhatWasStored ==
  LET g == store.got IN
  (g.kind # "none" /\ g.id \in DOMAIN store.rows) =>
    /\ g.kind = "data"
    /\ g.data = store.given[g.id]
    /\ g.data \in Bytes
    /\ Sha256(g.data) = store.rows[g.id].checksum

C17_Witness ==
  /\ store.got.kind = "data"
  /\ store.got.id \in DOMAIN store.rows
  /\ Cardinality(DOMAIN store.rows) = 2
  /\ store.given[store.got.id] = 2

\* C18: when the object of an artifact no longer holds the bytes that were
\* stored, get_artifact fails: it never gives bytes whose SHA-256 is not the
\* row's checksum.
C18_GetVerifiesChecksum ==
  store.got.kind = "data" => Sha256(store.got.data) = Checksum(store.got.id)

\* the input of invocation p, the only one, is an artifact whose object does
\* not match the row's checksum
InputMismatch(p) ==
  /\ invocations = 1
  /\ procs[p].pc = "done"
  /\ procs[p].start = StartOf(procs[p].kind)
  /\ procs[p].inArt \in DOMAIN artifacts
  /\ Sha256(Object(StoragePath(procs[p].inArt))) # Checksum(procs[p].inArt)

\* C19: a stage handler whose input object does not match the stored
\* checksum sends nothing to its model service, and the stage fails.
C19_HandlersVerifyTheirInput ==
  \A p \in Procs :
    InputMismatch(p) =>
      /\ procs[p].svc = "none"
      /\ job.status = FailedOf(procs[p].kind)

\* C20: when store_artifact raises, no object is left that no committed row
\* points to.
C20_NoObjectWithoutRow ==
  store.pc = "raised" =>
    \A k \in DOMAIN store.blobs :
      \E i \in DOMAIN store.rows : store.rows[i].storage_path = k

\* C26: a job's completed_at is set exactly when its status is completed or
\* failed.
C26_CompletedAtIffTerminal ==
  jobExists => (job.completed_at <=> job.status \in Terminal)

\* C27: an update that moves the job from status a to status b appends one
\* record (from a, to b) to the transitions log of the job row.
C27_TransitionIsLogged ==
  [][job'.status # job.status =>
       job'.transitions =
         Append(job.transitions, [from |-> job.status, to |-> job'.status])]_vars

\* C28: an error message persisted on the job row has at most 1000
\* characters.
C28_ErrorMessageIsBounded == job.error_message <= 1000

\* an attempt that ended in a transport failure
TransportFailure == Transport \cup {"transport"}

\* C29: a call of a model service makes at most 3 attempts, each attempt but
\* the first follows a transport failure of the one before, and an error
\* status ends the call at the attempt that met it.
C29_RetryOnlyOnTransportFailure ==
  net.result # NoResult =>
    LET r == net.result IN
    /\ r.attempts \in 1..3
    /\ \A i \in 1..(r.attempts - 1) : net.outs[i] \in TransportFailure
    /\ \A i \in 1..r.attempts :
         net.outs[i] = "http" => r.attempts = i /\ r.kind = "http"

C29_Witness ==
  /\ net.client = "fingering"
  /\ net.outs = <<"timeout", "network", "http">>
  /\ net.result = [kind |-> "http", attempts |-> 3]

\* C30: when the three attempts of a call all met a transport error, the
\* caller gets that transport error.
C30_TransportErrorIsPropagated ==
  (/\ net.result # NoResult
   /\ net.client \in {"omr", "fingering"}
   /\ \A i \in 1..3 : net.outs[i] \in Transport)
    => net.result.kind = net.outs[3]

\* C21: the parent_artifact_id of an artifact row, when set, is the id of an
\* artifact row of the same job.
C21_ParentIsOfTheSameJob ==
  \A i \in DOMAIN store.rows :
    store.rows[i].parent_artifact_id # NoArtifact =>
      store.rows[i].parent_artifact_id \in OwnArtifacts

\* the lineage rows whose derived artifact is i
EdgesTo(i) == SelectSeq(store.lineage, LAMBDA e : e.derived = i)

\* C22: an artifact stored with a parent has one lineage row, from that
\* parent, and get_artifact_lineage gives that parent as its only ancestor;
\* an artifact stored without a parent has no lineage row and no ancestor.
C22_LineageIsTheParent ==
  \A i \in DOMAIN store.rows :
    LET parent == store.rows[i].parent_artifact_id IN
    /\ parent # NoArtifact =>
         EdgesTo(i) = <<[source |-> parent, derived |-> i]>>
    /\ parent = NoArtifact => EdgesTo(i) = <<>>
    /\ store.lin.id = i =>
         store.lin.ancestors =
           IF parent # NoArtifact THEN <<parent>> ELSE <<>>

C22_Witness ==
  /\ store.lin.id \in DOMAIN store.rows
  /\ store.lin.ancestors # <<>>
  /\ store.lin.ancestors[1] \in DOMAIN store.rows
  /\ \E i \in DOMAIN store.rows :
       store.rows[i].parent_artifact_id = NoArtifact

\* C23: once delete_job has returned True the job is no row, no artifact row
\* and no lineage row of the job is left, get_artifact finds none of the
\* artifacts the job had, and no object of those artifacts is left in a
\* bucket. The key of artifact i is named i.
C23_DeleteRemovesRowsAndBlobs ==
  (api.op = "delete" /\ api.pc = "returned") =>
    /\ ~jobExists
    /\ artifacts = <<>>
    /\ store.rows = <<>>
    /\ store.lineage = <<>>
    /\ \A i \in api.listed :
         /\ i \notin DOMAIN store.rows \cup DOMAIN artifacts
         /\ i \notin ObjectKeys

\* C24: when delete_job ran while a handler of the job was in flight, found
\* every object it went to remove removed, and has returned True, and the
\* handlers have ended, no artifact row and no object of the job is left.
C24_NothingLeftOfADeletedJob ==
  (/\ api.op = "delete"
   /\ api.pc = "returned"
   /\ api.during
   /\ api.failed = {}
   /\ Quiet)
    => /\ artifacts = <<>>
       /\ store.rows = <<>>
       /\ ObjectKeys = {}

C31_HealthCheckIsAdvisory ==
  \A p \in Procs :
    /\ procs[p].pc = "rend_health" => procs[p].retry \in 0..2
    /\ procs[p].rexcAt # "rend_health"
    /\ procs[p].health = "failed" =>
         /\ procs[p].pc \in {"rend_call", "rend_store", "rend_set_completed",
                              "rend_set_failed"}
         /\ procs[p].pc = "rend_set_failed" =>
              procs[p].rexcAt \in {"rend_call", "rend_store",
                                    "rend_set_completed"}

C31_Witness ==
  \E p \in Procs :
    /\ procs[p].health = "failed"
    /\ procs[p].pc = "rend_set_completed"
    /\ procs[p].upd
    /\ MadeOfType(p, "svg") # {}

\* the places where a handler writes its stage's failed status
FailedSites == {"omr_set_failed", "fing_set_failed", "rend_set_failed"}

\* C32: a handler of a job that exists leaves the update to its failed
\* status without having applied it only when the attempt that failed was
\* the third.
C32_FailedUpdateIsRetried ==
  [][\A p \in Procs :
       (/\ jobExists
        /\ procs[p].pc \in FailedSites
        /\ procs'[p].pc # procs[p].pc
        /\ ~procs[p].upd)
         => procs[p].retry = 2]_vars

\* C33: a committed artifact that store_ir made of an IR of version 2.0.0
\* has the type ir_v2.
C33_IrV2IsTypedIrV2 ==
  \A i \in DOMAIN artifacts :
    artifacts[i].schema_version = "2.0.0" =>
      artifacts[i].artifact_type = "ir_v2"

\* rendering raised in invocation pr, and fingering had succeeded before it:
\* rendering ran inside the fingering handler, or the rendering task found
\* the job in fingering_completed
RenderingFailedAfterFingering(pr) ==
  /\ pr.rexcAt # "none"
  /\ \/ pr.kind = "fingering"
     \/ pr.kind = "rendering" /\ pr.start = "fingering_completed"

\* C34: no step of a handler in which rendering failed after fingering had
\* succeeded puts the job into fingering_failed or omr_failed, and when the
\* handler ends the job is failed and the ir_v2 artifact is still stored.
C34_StatusTellsTheStage ==
  [][\A p \in Procs :
       (procs[p].pc # "done" /\ RenderingFailedAfterFingering(procs'[p]))
         => /\ job'.status \notin {"fingering_failed", "omr_failed"}
            /\ procs'[p].pc = "done" =>
                 /\ job'.status = "failed"
                 /\ procs'[p].rArt \in DOMAIN artifacts'
                      => artifacts'[procs'[p].rArt].artifact_type = "ir_v2"
                 /\ \E i \in DOMAIN artifacts' :
                      artifacts'[i].artifact_type = "ir_v2"]_vars

C34_Witness ==
  \E p \in Procs :
    /\ procs[p].kind = "fingering"
    /\ procs[p].pc = "done"
    /\ procs[p].rexcAt = "rend_call"
    /\ job.status = "failed"
    /\ ArtifactsOfType("ir_v2") # {}

\* the notes of the resolved staff, by their place in the list
StaffNotes == {i \in 1..Len(score.notes) :
                 score.notes[i].staff_id = score.staff_id}

\* The first onsets of the groups among the onsets T: the earliest onset, and
\* then the earliest that is more than the tolerance behind the last first
\* onset.
RECURSIVE FirstOnsets(_)
FirstOnsets(T) ==
  IF T = {} THEN {}
  ELSE LET m == CHOOSE t \in T : \A u \in T : t <= u
       IN {m} \cup FirstOnsets({t \in T : t - m > Tolerance})

\* the first onset of the group note i is in
GroupOf(i) ==
  LET firsts == FirstOnsets({score.notes[j].onset_seconds : j \in StaffNotes})
      mine == {a \in firsts : a <= score.notes[i].onset_seconds}
  IN CHOOSE a \in mine : \A b \in mine : b <= a

\* the notes of i's group that are higher than i, and those not lower
Higher(i) ==
  {j \in StaffNotes : /\ GroupOf(j) = GroupOf(i)
                      /\ score.notes[j].midi_note > score.notes[i].midi_note}

NotLower(i) ==
  {j \in StaffNotes : /\ GroupOf(j) = GroupOf(i)
                      /\ score.notes[j].midi_note >= score.notes[i].midi_note}

\* C35: resolve_voices numbers the notes of each group of the staff from the
\* highest pitch down, starting at 1 and stopping at max_voices: a note's
\* voice is its place among the notes of its group by descending pitch, no two
\* notes of a group share a voice below max_voices, notes of other staves
\* keep what they had, and 60, 64, 67 sounding together get 3, 2, 1.
C35_VoicesByDescendingPitch ==
  score.resolved =>
    /\ \A i \in StaffNotes :
         LET v == score.notes[i].resolved_voice IN
         /\ v >= Min2(Cardinality(Higher(i)) + 1, score.max_voices)
         /\ v <= Min2(Cardinality(NotLower(i)), score.max_voices)
         /\ \A j \in StaffNotes \ {i} :
              (GroupOf(j) = GroupOf(i) /\ score.notes[j].resolved_voice = v)
                => v = score.max_voices
    /\ \A i \in 1..Len(score.notes) \ StaffNotes :
         score.notes[i].resolved_voice = NoVoice
    /\ (/\ Len(score.notes) = 3
        /\ score.max_voices = 4
        /\ StaffNotes = 1..3
        /\ \A i \in 1..3 : score.notes[i].onset_seconds = 0
        /\ [i \in 1..3 |-> score.notes[i].midi_note] = <<60, 64, 67>>)
         => [i \in 1..3 |-> score.notes[i].resolved_voice] = <<3, 2, 1>>

C35_Witness ==
  /\ score.resolved
  /\ Len(score.notes) = 3
  /\ score.max_voices = 4
  /\ score.staff_id = "staff_0"
  /\ [i \in 1..3 |-> score.notes[i].midi_note] = <<60, 64, 67>>
  /\ \A i \in 1..3 : /\ score.notes[i].onset_seconds = 0
                     /\ score.notes[i].staff_id = "staff_0"
  /\ [i \in 1..3 |-> score.notes[i].resolved_voice] = <<3, 2, 1>>

\* C36: when the renderer delivered musicxml, midi, svg and png and no
\* store_artifact call met a storage fault, the handler leaves the storing of
\* the outputs with one png artifact per page, each a child of the ir_v2
\* artifact, and goes on to write completed.
C36_PngPagesAreStored ==
  [][\A p \in Procs :
       (/\ procs[p].pc = "rend_store"
        /\ procs'[p].pc # "rend_store"
        /\ "png" \in procs[p].resp.keys
        /\ procs[p].resp.png > 0
        /\ procs[p].resp.midiOk
        /\ ~procs'[p].fault)
         => /\ procs'[p].pc = "rend_set_completed"
            /\ Cardinality({i \in procs'[p].made :
                              /\ artifacts'[i].artifact_type = "png"
                              /\ artifacts'[i].parent_artifact_id
                                   = procs[p].rArt})
                 = procs[p].resp.png]_vars

\* artifact i has this type and this parent
IsChild(i, type, parent) ==
  /\ artifacts[i].artifact_type = type
  /\ artifacts[i].parent_artifact_id = parent

\* C37: a completed job has a pdf artifact, an ir_v1 artifact made of it, an
\* ir_v2 artifact made of that, and a musicxml, a midi and an svg artifact
\* made of the ir_v2 artifact.
C37_CompletedJobHasFullLineage ==
  (jobExists /\ job.status = "completed") =>
    \E a, b, c \in DOMAIN artifacts :
      /\ IsChild(a, "pdf", NoArtifact)
      /\ IsChild(b, "ir_v1", a)
      /\ IsChild(c, "ir_v2", b)
      /\ \A t \in OutputTypes :
           \E o \in DOMAIN artifacts : IsChild(o, t, c)

C37_Witness ==
  /\ jobExists
  /\ job.status = "completed"
  /\ \A p \in Procs : procs[p].pc \in {"idle", "done"}
  /\ \E p \in Procs : procs[p].kind = "fingering" /\ MadeOfType(p, "svg") # {}

\* the statuses of a job that has left the stage: the stage's completed
\* status, the statuses of the later stages, completed and failed
LeftStage(kind) ==
  CASE kind = "omr" ->
         {"omr_completed", "fingering_processing", "fingering_completed",
          "fingering_failed", "rendering_processing", "completed", "failed"}
    [] kind = "fingering" ->
         {"fingering_completed", "rendering_processing", "completed",
          "failed"}
    [] kind = "rendering" -> {"completed", "failed"}
    [] OTHER -> {}

\* C38: no step of a handler that was started for a job that had left the
\* handler's stage changes the job row or the artifacts, and none is a call
\* of a model service.
C38_ReinvocationChangesNothing ==
  [][\A p \in Procs :
       (/\ procs[p].pc \notin {"idle", "done"}
        /\ procs[p].start \in LeftStage(procs[p].kind))
         => /\ job' = job
            /\ jobExists' = jobExists
            /\ artifacts' = artifacts
            /\ procs[p].pc \notin {"omr_call", "fing_call", "rend_call"}
            /\ procs'[p].svc = "none"]_vars

C38_Witness ==
  \E p \in Procs :
    /\ procs[p].kind = "omr"
    /\ procs[p].start = "omr_completed"
    /\ procs[p].pc = "done"
    /\ procs[p].excAt = "omr_set_processing"
    /\ job.status = "omr_completed"

\* the processing statuses of the stages invocation p runs: its own, and
\* rendering_processing for a fingering handler, which runs rendering itself
StagesOf(p) ==
  IF procs[p].kind = "fingering"
    THEN {"fingering_processing", "rendering_processing"}
    ELSE {ProcessingOf(procs[p].kind)}

\* C39: a handler that was started ends; and when the only invocation there
\* has been has ended, the job is not in the processing status of a stage
\* that invocation ran.
C39_HandlerEndsOutsideProcessing ==
  /\ \A p \in Procs :
       (procs[p].pc \notin {"idle", "done"}) ~> (procs[p].pc = "done")
  /\ [](\A p \in Procs :
          (/\ invocations = 1
           /\ procs[p].pc = "done"
           /\ jobExists)
            => job.status \notin StagesOf(p))

C39_Witness ==
  \E p \in Procs :
    /\ invocations = 1
    /\ procs[p].kind = "omr"
    /\ procs[p].pc = "done"
    /\ procs[p].excAt = "omr_call"
    /\ jobExists
    /\ job.status = "omr_failed"

====
